---------------------------- MODULE Spec2Model ----------------------------
(***************************************************************************)
(* A model of rs-merkle (ComposableFi fork): the partial tree builder, the *)
(* merkle proof (root extraction, verification, byte encoding) and the     *)
(* staged / committed merkle tree with its rollback history.               *)
(*                                                                         *)
(* Hashes of tree nodes are modelled as terms of a free algebra, written   *)
(* as sequences of naturals in prefix notation, so that the hashing        *)
(* capability is collision free:                                           *)
(*     a leaf hash          <<k>>            with k in 1..NumHashes        *)
(*     hash(left ++ right)  <<0>> \o left \o right                         *)
(* The absent hash (Option::None) is the empty sequence.                   *)
(***************************************************************************)
EXTENDS Integers, Sequences, FiniteSets, TLC

VARIABLES
    \* MerkleTree
    sorted_pair_enabled,   \* TreeProperties.sorted_pair_enabled of this run
    current_working_tree,  \* committed partial tree: layers of <<index, hash>>
    history,               \* stack of committed states to roll back to
    uncommitted_leaves,    \* staged leaf hashes
    op,                    \* the last operation applied to the tree
    answer,                \* what the last query returned
    committed_once,        \* TRUE once some commit has been applied
    built_from,            \* the leaves given to MerkleTree::from_leaves
    log,                   \* the commits and rollbacks applied, where they are recorded
    \* MerkleProof under verification
    proof_hashes,          \* MerkleProof.proof_hashes
    leaf_indices,          \* argument of root / verify
    leaf_hashes,           \* argument of root / verify
    total_leaves_count,    \* argument of root / verify
    tamper,                \* how the arguments were changed after proof()
    root_result,           \* what MerkleProof::root returned
    verify_result,         \* what MerkleProof::verify returned
    \* MerkleProof byte encoding
    bytes,                 \* a serialized proof
    decoded,               \* what from_bytes returned for it
    \* PartialTree::build called on its own
    given_layers,          \* argument partial_layers of build
    given_depth,           \* argument depth of build
    build_result,          \* what build returned
    \* A PartialTree used on its own
    self_layers,           \* PartialTree.layers of the tree the methods are called on
    other_layers,          \* PartialTree.layers of the argument of merge_unverified
    outcome                \* the last call, the layers before it, how it ended

vars == <<sorted_pair_enabled, current_working_tree, history, uncommitted_leaves,
          op, answer, committed_once, built_from, log, proof_hashes, leaf_indices, leaf_hashes,
          total_leaves_count, tamper, root_result, verify_result, bytes, decoded,
          given_layers, given_depth, build_result,
          self_layers, other_layers, outcome>>

tree_vars == <<current_working_tree, history, uncommitted_leaves, op, answer,
               committed_once, built_from, log>>

proof_vars == <<proof_hashes, leaf_indices, leaf_hashes, total_leaves_count,
                tamper, root_result, verify_result>>

bytes_vars == <<bytes, decoded>>

build_vars == <<given_layers, given_depth, build_result>>

partial_vars == <<self_layers, other_layers, outcome>>

(***************************************************************************)
(* Bounds of the model.                                                    *)
(***************************************************************************)
NumHashes == 2      \* distinct leaf hash values
MaxLeaves == 4      \* leaves of a tree (committed plus staged)
MaxProofLeaves == 3 \* leaves of a tree that proofs are taken from
MaxAppend == 2      \* leaves given to one append
MaxHistory == 2     \* commits kept in the history
MaxLog == 4
MaxLogLeaves == 3
MaxPosition == 3
MaxBuildDepth == 2
MaxMergePosition == 2
MaxProofLen == 2    \* hashes of a proof that is serialized
MaxByte == 1        \* byte values are 0..MaxByte
HashWidth == 2      \* bytes of one hash in the encoding model

(***************************************************************************)
(* Hasher: the hashing capability.                                         *)
(***************************************************************************)
NoHash == <<>>

LeafHashes == {<<k>> : k \in 1..NumHashes}

\* Hasher::concat_and_hash: a lone left node is carried up unchanged.
ConcatAndHash(left, right) ==
    IF right = NoHash THEN left ELSE <<0>> \o left \o right

\* utils::collections::to_hex_string: two lowercase hex digits per byte.
ToHexString(hash) ==
    [i \in 1..(2 * Len(hash)) |->
        IF i % 2 = 1 THEN hash[(i + 1) \div 2] \div 16
                     ELSE hash[i \div 2] % 16]

\* The first index at which a and b differ, or 0 when one is a prefix of the other.
RECURSIVE FirstDiff(_, _, _)
FirstDiff(a, b, i) ==
    IF i > Len(a) \/ i > Len(b) THEN 0
    ELSE IF a[i] # b[i] THEN i
    ELSE FirstDiff(a, b, i + 1)

\* String comparison a < b.
StrLess(a, b) ==
    LET d == FirstDiff(a, b, 1)
    IN  IF d = 0 THEN Len(a) < Len(b) ELSE a[d] < b[d]

(***************************************************************************)
(* utils::indices                                                          *)
(***************************************************************************)
RECURSIVE CeilLog2(_)
CeilLog2(n) == IF n <= 1 THEN 0 ELSE 1 + CeilLog2((n + 1) \div 2)

tree_depth(leaves_count) ==
    IF leaves_count <= 1 THEN 0 ELSE CeilLog2(leaves_count)

\* Vec::dedup: consecutive repetitions are removed.
RECURSIVE Dedup(_)
Dedup(s) ==
    IF Len(s) <= 1 THEN s
    ELSE IF s[1] = s[2] THEN Dedup(Tail(s))
    ELSE <<s[1]>> \o Dedup(Tail(s))

parent_indices(indices) ==
    Dedup([i \in 1..Len(indices) |-> indices[i] \div 2])

get_sibling_index(index) == IF index % 2 = 0 THEN index + 1 ELSE index - 1

\* The elements of the set of naturals S, ascending.
RECURSIVE Ascending(_)
Ascending(S) ==
    IF S = {} THEN <<>>
    ELSE LET m == CHOOSE x \in S : \A y \in S : x <= y
         IN  <<m>> \o Ascending(S \ {m})

Range(s) == {s[i] : i \in 1..Len(s)}

\* Nodes of layer layer_index of a tree of leaves_count leaves.
RECURSIVE LayerSize(_, _)
LayerSize(leaves_count, layer_index) ==
    IF layer_index = 0 THEN leaves_count
    ELSE LayerSize((leaves_count + 1) \div 2, layer_index - 1)

RECURSIVE ProofIndicesFrom(_, _, _, _)
ProofIndicesFrom(known, leaves_count, layer_index, depth) ==
    IF layer_index >= depth THEN <<>>
    ELSE LET siblings == {get_sibling_index(p) : p \in Range(known)}
             required == {s \in siblings :
                             /\ s \notin Range(known)
                             /\ s < LayerSize(leaves_count, layer_index)}
         IN  <<Ascending(required)>> \o
             ProofIndicesFrom(parent_indices(known), leaves_count,
                              layer_index + 1, depth)

proof_indices_by_layers(indices, leaves_count) ==
    ProofIndicesFrom(Ascending(Range(indices)), leaves_count, 0,
                     tree_depth(leaves_count))


(***************************************************************************)
(* PartialTree                                                             *)
(***************************************************************************)
\* A node is <<index, hash>>; a layer is a sequence of nodes.
Indices(layer) == [i \in 1..Len(layer) |-> layer[i][1]]
Hashes(layer) == [i \in 1..Len(layer) |-> layer[i][2]]

\* sort_by(|(a, _), (b, _)| a.cmp(b)): a stable sort by index.
InsertNode(sorted, node) ==
    LET k == Cardinality({i \in 1..Len(sorted) : sorted[i][1] <= node[1]})
    IN  SubSeq(sorted, 1, k) \o <<node>> \o SubSeq(sorted, k + 1, Len(sorted))

\* Faulty variant: the layer is left in the order given.
LeftUnsorted(layer) == layer

RECURSIVE SortByIndex(_)
SortByIndex(layer) ==
    IF layer = <<>> THEN <<>>
    ELSE InsertNode(SortByIndex(SubSeq(layer, 1, Len(layer) - 1)), layer[Len(layer)])

\* Faulty variant: the left node always goes first.
sorted_concat_left_first(left_node, right_node) ==
    ConcatAndHash(left_node, right_node)

\* The hash pushed for a parent whose left node exists.
sorted_concat_and_hash(left_node, right_node) ==
    IF right_node # NoHash /\ StrLess(ToHexString(right_node), ToHexString(left_node))
    THEN ConcatAndHash(right_node, left_node)
    ELSE ConcatAndHash(left_node, right_node)

\* Faulty variant: the right node is left out of the parent.
unsorted_concat_left_only(left_node, right_node) ==
    ConcatAndHash(left_node, NoHash)

unsorted_concat_and_hash(left_node, right_node) ==
    ConcatAndHash(left_node, right_node)

\* nodes.get(i): the i-th hash (from 0), or None.
Get(nodes, i) == IF i + 1 <= Len(nodes) THEN nodes[i + 1] ELSE NoHash

\* One round of build_tree over the sorted layer: the parents, or the error of
\* a parent whose left node is missing.
ParentLayer(layer, sorted) ==
    LET nodes == Hashes(layer)
        parent_layer_indices == parent_indices(Indices(layer))
        n == Len(parent_layer_indices)
    IN  IF \E i \in 0..(n - 1) : Get(nodes, i * 2) = NoHash
        THEN [err |-> "NotEnoughHelperNodes", layer |-> <<>>]
        ELSE [err |-> "Ok",
              layer |-> [k \in 1..n |->
                  <<parent_layer_indices[k],
                    IF sorted
                    THEN sorted_concat_and_hash(Get(nodes, (k - 1) * 2),
                                                Get(nodes, (k - 1) * 2 + 1))
                    ELSE unsorted_concat_and_hash(Get(nodes, (k - 1) * 2),
                                                  Get(nodes, (k - 1) * 2 + 1))>>]]

RECURSIVE BuildLoop(_, _, _, _, _)
BuildLoop(partial_layers, current_layer, partial_tree, rounds, sorted) ==
    IF rounds = 0
    THEN [err |-> "Ok", layers |-> Append(partial_tree, current_layer)]
    ELSE LET helper == IF partial_layers = <<>> THEN <<>> ELSE Head(partial_layers)
             rest == IF partial_layers = <<>> THEN <<>> ELSE Tail(partial_layers)
             layer == SortByIndex(current_layer \o helper)
             parents == ParentLayer(layer, sorted)
         IN  IF parents.err # "Ok"
             THEN [err |-> parents.err, layers |-> <<>>]
             ELSE BuildLoop(rest, parents.layer, Append(partial_tree, layer),
                            rounds - 1, sorted)

build_tree(partial_layers, full_tree_depth, sorted) ==
    BuildLoop(partial_layers, <<>>, <<>>, full_tree_depth, sorted)

\* PartialTree::build: [err |-> "Ok", layers |-> the tree] or the error.
build(partial_layers, depth, sorted) == build_tree(partial_layers, depth, sorted)

\* Faulty variant: the tree is built without any hashing round.
from_leaves_leaf_layer_only(leaves, sorted) ==
    build(<<[i \in 1..Len(leaves) |-> <<i - 1, leaves[i]>>]>>, 0, sorted)

\* PartialTree::from_leaves
from_leaves(leaves, sorted) ==
    build(<<[i \in 1..Len(leaves) |-> <<i - 1, leaves[i]>>]>>,
          tree_depth(Len(leaves)), sorted)

\* PartialTree::root: the hash of the first node of the last layer, or None.
root(layers) ==
    IF layers = <<>> THEN NoHash
    ELSE IF layers[Len(layers)] = <<>> THEN NoHash
    ELSE layers[Len(layers)][1][2]

\* PartialTree::contains (layer_index from 0)
contains(layers, layer_index, node_index) ==
    /\ layer_index + 1 <= Len(layers)
    /\ \E i \in 1..Len(layers[layer_index + 1]) :
           layers[layer_index + 1][i][1] = node_index

\* Faulty variant: on a position present in both trees the node of self is kept.
combined_layer_self_wins(self, other, layer_index) ==
    LET self_layer == IF layer_index + 1 <= Len(self)
                      THEN self[layer_index + 1] ELSE <<>>
        other_layer == IF layer_index + 1 <= Len(other)
                       THEN other[layer_index + 1] ELSE <<>>
        filtered_layer == SelectSeq(other_layer,
                              LAMBDA node : ~contains(self, layer_index, node[1]))
    IN  SortByIndex(self_layer \o filtered_layer)

\* Faulty variant: the layer of other replaces the layer of self.
combined_layer_other_only(self, other, layer_index) ==
    IF layer_index + 1 <= Len(other) THEN SortByIndex(other[layer_index + 1]) ELSE <<>>

\* The layer merge_unverified builds for layer_index (from 0).
combined_layer(self, other, layer_index) ==
    LET self_layer == IF layer_index + 1 <= Len(self)
                      THEN self[layer_index + 1] ELSE <<>>
        filtered_layer == SelectSeq(self_layer,
                              LAMBDA node : ~contains(other, layer_index, node[1]))
        other_layer == IF layer_index + 1 <= Len(other)
                       THEN other[layer_index + 1] ELSE <<>>
    IN  SortByIndex(filtered_layer \o other_layer)

\* usize subtraction other.layers().len() - self.layers().len() goes below zero.
depth_difference_underflows(self, other) == Len(other) < Len(self)

\* Faulty variant: only the layers self already has are rewritten.
combined_tree_size_of_self(self, other) == Len(self)

\* The number of layers merge_unverified rewrites. A difference below zero
\* wraps to a large positive usize, so that other's length is taken.
combined_tree_size(self, other) ==
    IF Len(other) # Len(self) THEN Len(other) ELSE Len(self)

\* PartialTree::merge_unverified with upsert_layer: the layers of self afterwards.
merge_unverified(self, other) ==
    LET size == combined_tree_size(self, other)
        n == IF size > Len(self) THEN size ELSE Len(self)
    IN  [i \in 1..n |->
            IF i <= size THEN combined_layer(self, other, i - 1) ELSE self[i]]

(***************************************************************************)
(* MerkleProof                                                             *)
(***************************************************************************)
RootOk(hash) == [status |-> "Ok", hash |-> hash]
RootErr(kind) == [status |-> kind, hash |-> NoHash]

\* The number of elements of the sequences of a sequence.
RECURSIVE TotalLen(_)
TotalLen(seqs) == IF seqs = <<>> THEN 0 ELSE Len(Head(seqs)) + TotalLen(Tail(seqs))

\* Faulty variant: the hashes are taken from the end of the proof.
ProofLayersFromEnd(proof_indices_by_layer, proof_copy) ==
    LET skip == Len(proof_copy) - TotalLen(proof_indices_by_layer)
    IN  IF skip < 0 THEN [panic |-> TRUE, layers |-> <<>>]
        ELSE [panic |-> FALSE,
              layers |-> [l \in 1..Len(proof_indices_by_layer) |->
                  [i \in 1..Len(proof_indices_by_layer[l]) |->
                      <<proof_indices_by_layer[l][i],
                        proof_copy[skip + i
                            + TotalLen(SubSeq(proof_indices_by_layer, 1, l - 1))]>>]]]

\* The loop of MerkleProof::root that groups the proof hashes by layer: splice
\* takes the first proof_indices.len() hashes of what is left of the copy and
\* panics when fewer are left.
RECURSIVE ProofLayers(_, _)
ProofLayers(proof_indices_by_layer, proof_copy) ==
    IF proof_indices_by_layer = <<>> THEN [panic |-> FALSE, layers |-> <<>>]
    ELSE LET proof_indices == Head(proof_indices_by_layer)
             n == Len(proof_indices)
         IN  IF n > Len(proof_copy) THEN [panic |-> TRUE, layers |-> <<>>]
             ELSE LET rest == ProofLayers(Tail(proof_indices_by_layer),
                                          SubSeq(proof_copy, n + 1, Len(proof_copy)))
                  IN  [panic |-> rest.panic,
                       layers |-> <<[i \in 1..n |-> <<proof_indices[i], proof_copy[i]>>]>>
                                  \o rest.layers]

\* MerkleProof::root after the check of the lengths: the leaf tuples are
\* sorted, the proof hashes grouped by layer, the partial tree built.
ExtractRoot(hashes, indices, leaf_tuples, leaves_count, sorted) ==
    LET depth == tree_depth(leaves_count)
        sorted_tuples == SortByIndex(leaf_tuples)
        grouped == ProofLayers(proof_indices_by_layers(indices, leaves_count), hashes)
    IN  IF grouped.panic THEN RootErr("Panic")
        ELSE
        LET proof_layers ==
                IF grouped.layers # <<>>
                THEN <<SortByIndex(Head(grouped.layers) \o sorted_tuples)>>
                     \o Tail(grouped.layers)
                ELSE <<sorted_tuples>>
            partial_tree == build(proof_layers, depth, sorted)
        IN  IF partial_tree.err # "Ok" THEN RootErr(partial_tree.err)
            ELSE IF root(partial_tree.layers) = NoHash
                 THEN RootErr("NotEnoughHashesToCalculateRoot")
                 ELSE RootOk(root(partial_tree.layers))

\* Faulty variant: root without the check of the lengths (zip stops at the shorter).
MerkleProofRootUnchecked(hashes, indices, claimed_hashes, leaves_count, sorted) ==
    LET n == IF Len(indices) < Len(claimed_hashes)
             THEN Len(indices) ELSE Len(claimed_hashes)
    IN  ExtractRoot(hashes, indices,
                    [i \in 1..n |-> <<indices[i], claimed_hashes[i]>>],
                    leaves_count, sorted)

\* MerkleProof::root: status "Ok" with the root, the error kind, or "Panic".
MerkleProofRoot(hashes, indices, claimed_hashes, leaves_count, sorted) ==
    IF Len(indices) # Len(claimed_hashes) THEN RootErr("LeavesIndicesCountMismatch")
    ELSE ExtractRoot(hashes, indices,
                     [i \in 1..Len(indices) |-> <<indices[i], claimed_hashes[i]>>],
                     leaves_count, sorted)

\* MerkleProof::verify on what root returned: "true", "false", or "Panic"
\* when root panics.
VerifyOutcome(extracted, expected_root) ==
    IF extracted.status = "Panic" THEN "Panic"
    ELSE IF extracted.status = "Ok" /\ extracted.hash = expected_root THEN "true"
    ELSE "false"

MerkleProofVerify(expected_root, hashes, indices, claimed_hashes, leaves_count, sorted) ==
    VerifyOutcome(MerkleProofRoot(hashes, indices, claimed_hashes, leaves_count, sorted),
                  expected_root)

(***************************************************************************)
(* MerkleTree                                                              *)
(***************************************************************************)
leaves_len(tree) == IF tree = <<>> THEN 0 ELSE Len(tree[1])

\* MerkleTree::leaves: the committed leaf hashes (None is the empty sequence).
leaves(tree) == IF tree = <<>> THEN <<>> ELSE Hashes(tree[1])

\* MerkleTree::depth: usize subtraction layers.len() - 1; below zero for a
\* tree without layers.
depth(tree) == Len(tree) - 1

\* The nodes of the tree at the positions proof_indices_by_layers lists, by layer.
helper_node_tuples(tree, indices, leaves_count) ==
    LET by_layer == proof_indices_by_layers(indices, leaves_count)
    IN  [l \in 1..Len(by_layer) |->
            IF l > Len(tree) THEN <<>>
            ELSE SelectSeq(tree[l], LAMBDA node : node[1] \in Range(by_layer[l]))]

RECURSIVE Flatten(_)
Flatten(seqs) == IF seqs = <<>> THEN <<>> ELSE Head(seqs) \o Flatten(Tail(seqs))

\* Faulty variant: the hashes of the layer nearest the root come first.
proof_root_side_first(tree, indices) ==
    LET tuples == helper_node_tuples(tree, indices, leaves_len(tree))
    IN  Flatten([l \in 1..Len(tuples) |-> Hashes(tuples[Len(tuples) + 1 - l])])

\* MerkleTree::proof: the proof hashes, leaf layer first, ascending in a layer.
proof(tree, indices) ==
    LET tuples == helper_node_tuples(tree, indices, leaves_len(tree))
    IN  Flatten([l \in 1..Len(tuples) |-> Hashes(tuples[l])])

\* The partial tree of the staged leaves over the committed tree, or
\* err "None" when nothing is staged.
uncommitted_diff(tree, staged, sorted) ==
    IF staged = <<>> THEN [err |-> "None", layers |-> <<>>]
    ELSE
    LET committed_leaves_count == leaves_len(tree)
        shadow_indices == [i \in 1..Len(staged) |-> committed_leaves_count + i - 1]
        shadow_node_tuples == [i \in 1..Len(staged) |-> <<shadow_indices[i], staged[i]>>]
        leaves_in_new_tree == committed_leaves_count + Len(staged)
        helpers == helper_node_tuples(tree, shadow_indices, leaves_in_new_tree)
        partial_tree_tuples ==
            IF helpers # <<>>
            THEN <<SortByIndex(Head(helpers) \o shadow_node_tuples)>> \o Tail(helpers)
            ELSE <<shadow_node_tuples>>
    IN  build(partial_tree_tuples, tree_depth(leaves_in_new_tree), sorted)

\* Faulty variant: without a diff the root of the committed tree is returned.
uncommitted_root_or_committed(tree, staged, sorted) ==
    LET diff == uncommitted_diff(tree, staged, sorted)
    IN  IF diff.err = "Ok" THEN root(diff.layers) ELSE root(tree)

\* MerkleTree::uncommitted_root
uncommitted_root(tree, staged, sorted) ==
    LET diff == uncommitted_diff(tree, staged, sorted)
    IN  IF diff.err = "Ok" THEN root(diff.layers) ELSE NoHash

\* The committed tree after MerkleTree::commit.
committed_tree(tree, staged, sorted) ==
    LET diff == uncommitted_diff(tree, staged, sorted)
    IN  IF diff.err = "Ok" THEN merge_unverified(tree, diff.layers) ELSE tree

\* MerkleTree::from_leaves: an empty tree, append, commit.
tree_from_leaves(leaf_list, sorted) == committed_tree(<<>>, leaf_list, sorted)

(***************************************************************************)
(* The merkle tree as a state machine: MerkleTree::new, then any sequence  *)
(* of insert, append, commit, rollback and queries.                        *)
(***************************************************************************)
\* Sequences over S of length lo..hi.
SeqsOf(S, lo, hi) == UNION {[1..n -> S] : n \in lo..hi}

NoAnswer == [query |-> "none", value |-> <<>>]

IdleProof ==
    /\ proof_hashes = <<>>
    /\ leaf_indices = <<>>
    /\ leaf_hashes = <<>>
    /\ total_leaves_count = 0
    /\ tamper = "idle"
    /\ root_result = RootErr("NotRun")
    /\ verify_result = "NotRun"

IdleBytes ==
    /\ bytes = <<>>
    /\ decoded = [status |-> "NotRun", hashes |-> <<>>]

IdleBuild ==
    /\ given_layers = <<>>
    /\ given_depth = 0
    /\ build_result = [err |-> "NotRun", layers |-> <<>>]

\* What a call on a partial tree leaves behind: its name, the layers of self
\* before it, whether it panicked, the value it returned.
Outcome(call, before, panic, value) ==
    [call |-> call, before |-> before, panic |-> panic, value |-> value]

\* PartialTree::new
IdlePartial ==
    /\ self_layers = <<>>
    /\ other_layers = <<>>
    /\ outcome = Outcome("new", <<>>, FALSE, 0)

\* MerkleTree::new
Init ==
    /\ sorted_pair_enabled \in BOOLEAN
    /\ current_working_tree = <<>>
    /\ history = <<>>
    /\ uncommitted_leaves = <<>>
    /\ op = "new"
    /\ answer = NoAnswer
    /\ committed_once = FALSE
    /\ built_from = <<>>
    /\ IdleProof
    /\ IdleBytes
    /\ IdleBuild
    /\ IdlePartial
    /\ log = <<>>

Room == MaxLeaves - leaves_len(current_working_tree) - Len(uncommitted_leaves)

\* Faulty variant: insert puts the leaf into the committed tree at once.
InsertCommitted(leaf) ==
    /\ Room >= 1
    /\ current_working_tree' = committed_tree(current_working_tree,
                                              Append(uncommitted_leaves, leaf),
                                              sorted_pair_enabled)
    /\ uncommitted_leaves' = <<>>
    /\ op' = "insert"
    /\ answer' = NoAnswer
    /\ UNCHANGED <<sorted_pair_enabled, history, committed_once,
                   built_from, log, proof_vars, bytes_vars, build_vars,
                   partial_vars>>

\* MerkleTree::insert
Insert(leaf) ==
    /\ Room >= 1
    /\ uncommitted_leaves' = Append(uncommitted_leaves, leaf)
    /\ op' = "insert"
    /\ answer' = NoAnswer
    /\ UNCHANGED <<sorted_pair_enabled, current_working_tree, history, committed_once,
                   built_from, log, proof_vars, bytes_vars, build_vars,
                   partial_vars>>

\* MerkleTree::append
AppendLeaves(new_leaves) ==
    /\ Room >= Len(new_leaves)
    /\ uncommitted_leaves' = uncommitted_leaves \o new_leaves
    /\ op' = "append"
    /\ answer' = NoAnswer
    /\ UNCHANGED <<sorted_pair_enabled, current_working_tree, history, committed_once,
                   built_from, log, proof_vars, bytes_vars, build_vars,
                   partial_vars>>

\* Faulty variant: a commit without staged leaves pushes a history entry too.
CommitStepAlwaysPushes ==
    /\ Len(history) < MaxHistory
    /\ LET diff == uncommitted_diff(current_working_tree, uncommitted_leaves,
                                    sorted_pair_enabled)
       IN  /\ history' = Append(history, current_working_tree)
           /\ current_working_tree' =
                  IF diff.err = "Ok"
                  THEN merge_unverified(current_working_tree, diff.layers)
                  ELSE current_working_tree
           /\ uncommitted_leaves' = <<>>
    /\ op' = "commit"
    /\ answer' = NoAnswer
    /\ committed_once' = TRUE
    /\ UNCHANGED <<sorted_pair_enabled, built_from, proof_vars, bytes_vars, build_vars,
                   partial_vars>>

\* MerkleTree::commit: with staged leaves the committed state before the commit
\* is pushed on the history, the staged leaves are folded into the committed
\* tree and the staged list is emptied; without staged leaves nothing changes.
CommitStep ==
    /\ uncommitted_leaves # <<>> => Len(history) < MaxHistory
    /\ LET diff == uncommitted_diff(current_working_tree, uncommitted_leaves,
                                    sorted_pair_enabled)
       IN  IF diff.err = "Ok"
           THEN /\ history' = Append(history, current_working_tree)
                /\ current_working_tree' = merge_unverified(current_working_tree,
                                                            diff.layers)
                /\ uncommitted_leaves' = <<>>
           ELSE UNCHANGED <<history, current_working_tree, uncommitted_leaves>>
    /\ op' = "commit"
    /\ answer' = NoAnswer
    /\ committed_once' = TRUE
    /\ UNCHANGED <<sorted_pair_enabled, built_from, proof_vars, bytes_vars, build_vars,
                   partial_vars>>

Commit == CommitStep /\ UNCHANGED log

\* MerkleTree::rollback: the most recent history entry becomes the committed
\* state; with an empty history nothing changes.
\* Faulty variant: the history entry is dropped and the committed tree kept.
RollbackStepKeepsTree ==
    /\ IF history # <<>>
       THEN /\ current_working_tree' = current_working_tree
            /\ history' = SubSeq(history, 1, Len(history) - 1)
       ELSE UNCHANGED <<current_working_tree, history>>
    /\ op' = "rollback"
    /\ answer' = NoAnswer
    /\ UNCHANGED <<sorted_pair_enabled, uncommitted_leaves, committed_once,
                   built_from, proof_vars, bytes_vars, build_vars,
                   partial_vars>>

RollbackStep ==
    /\ IF history # <<>>
       THEN /\ current_working_tree' = history[Len(history)]
            /\ history' = SubSeq(history, 1, Len(history) - 1)
       ELSE UNCHANGED <<current_working_tree, history>>
    /\ op' = "rollback"
    /\ answer' = NoAnswer
    /\ UNCHANGED <<sorted_pair_enabled, uncommitted_leaves, committed_once,
                   built_from, proof_vars, bytes_vars, build_vars,
                   partial_vars>>

Rollback == RollbackStep /\ UNCHANGED log

\* The queries: root, uncommitted_root, leaves, leaves_len, depth.
QueryAnswers ==
    { [query |-> "root", value |-> root(current_working_tree)],
      [query |-> "uncommitted_root",
       value |-> uncommitted_root(current_working_tree, uncommitted_leaves,
                                  sorted_pair_enabled)],
      [query |-> "leaves", value |-> leaves(current_working_tree)],
      [query |-> "leaves_len", value |-> leaves_len(current_working_tree)],
      [query |-> "depth", value |-> depth(current_working_tree)] }

Query ==
    /\ \E a \in QueryAnswers : answer' = a
    /\ op' = "query"
    /\ UNCHANGED <<sorted_pair_enabled, current_working_tree, history,
                   uncommitted_leaves, committed_once, built_from, log, proof_vars,
                   bytes_vars, build_vars,
                   partial_vars>>

Next ==
    \/ \E leaf \in LeafHashes : Insert(leaf)
    \/ \E new_leaves \in SeqsOf(LeafHashes, 0, MaxAppend) : AppendLeaves(new_leaves)
    \/ Commit
    \/ Rollback
    \/ Query

Spec == Init /\ [][Next]_vars

(***************************************************************************)
(* The same tree with every commit and rollback recorded: which operation, *)
(* the committed tree it was applied to, whether leaves were staged and    *)
(* whether the history held an entry.                                      *)
(***************************************************************************)
LogEntry(name) ==
    [op |-> name,
     before |-> current_working_tree,
     staged |-> uncommitted_leaves # <<>>,
     had_history |-> history # <<>>]

LoggedCommit ==
    /\ Len(log) < MaxLog
    /\ CommitStep
    /\ log' = Append(log, LogEntry("commit"))

LoggedRollback ==
    /\ Len(log) < MaxLog
    /\ RollbackStep
    /\ log' = Append(log, LogEntry("rollback"))

\* The leaves that may still be staged where the operations are recorded.
LogRoom == MaxLogLeaves - leaves_len(current_working_tree) - Len(uncommitted_leaves)

\* Here every staged leaf has the same hash: the trees differ in their size.
LogLeafHashes == {<<1>>}

NextLog ==
    \/ LogRoom >= 1 /\ \E leaf \in LogLeafHashes : Insert(leaf)
    \/ \E n \in 0..MaxAppend :
           /\ n <= LogRoom
           /\ \E new_leaves \in SeqsOf(LogLeafHashes, n, n) : AppendLeaves(new_leaves)
    \/ LoggedCommit
    \/ LoggedRollback

SpecLog == Init /\ [][NextLog]_vars

(***************************************************************************)
(* Proofs: a tree built by MerkleTree::from_leaves hands out a proof for a *)
(* set of positions; the caller passes it to MerkleProof::root and verify, *)
(* unchanged or with one argument changed.                                 *)
(***************************************************************************)
InitProof ==
    /\ sorted_pair_enabled \in BOOLEAN
    /\ built_from \in SeqsOf(LeafHashes, 1, MaxProofLeaves)
    /\ current_working_tree = tree_from_leaves(built_from, sorted_pair_enabled)
    /\ history = <<<<>>>>
    /\ uncommitted_leaves = <<>>
    /\ op = "from_leaves"
    /\ answer = NoAnswer
    /\ committed_once = TRUE
    /\ IdleProof
    /\ IdleBytes
    /\ IdleBuild
    /\ IdlePartial
    /\ log = <<>>

\* MerkleProof::root and MerkleProof::verify against the root of the tree, on
\* the arguments given. Without a root of the tree there is nothing to pass to
\* verify.
Call(hashes, indices, claimed_hashes, leaves_count, how) ==
    /\ proof_hashes' = hashes
    /\ leaf_indices' = indices
    /\ leaf_hashes' = claimed_hashes
    /\ total_leaves_count' = leaves_count
    /\ tamper' = how
    /\ root_result' = MerkleProofRoot(hashes, indices, claimed_hashes, leaves_count,
                                      sorted_pair_enabled)
    /\ verify_result' =
           IF root(current_working_tree) = NoHash THEN "NoRoot"
           ELSE VerifyOutcome(root_result', root(current_working_tree))
    /\ UNCHANGED <<sorted_pair_enabled, tree_vars, bytes_vars, build_vars,
                   partial_vars>>

\* The hashes of the leaves of the tree's input at the given positions.
HashesAt(indices) == [i \in 1..Len(indices) |-> built_from[indices[i] + 1]]

\* MerkleTree::proof for the positions S, then root / verify on that proof,
\* the positions, their leaf hashes and the number of leaves.
VerifyProof(S) ==
    /\ tamper = "idle"
    /\ LET indices == Ascending(S)
       IN  Call(proof(current_working_tree, indices), indices, HashesAt(indices),
                Len(built_from), "none")

\* Every hash of a node of the tree, and every leaf hash value.
KnownHashes ==
    LeafHashes \cup
    UNION {Range(Hashes(current_working_tree[l])) : l \in 1..Len(current_working_tree)}

ReplaceAt(s, i, v) == [s EXCEPT ![i] = v]
DropLast(s) == SubSeq(s, 1, Len(s) - 1)

\* The same call with one proof hash replaced by a different hash.
ReplaceProofHash(i, hash) ==
    /\ tamper = "none"
    /\ i \in 1..Len(proof_hashes)
    /\ hash # proof_hashes[i]
    /\ Call(ReplaceAt(proof_hashes, i, hash), leaf_indices, leaf_hashes,
            total_leaves_count, "proof_hash")

\* The same call with one claimed leaf hash replaced by a different hash.
ReplaceLeafHash(i, hash) ==
    /\ tamper = "none"
    /\ i \in 1..Len(leaf_hashes)
    /\ hash # leaf_hashes[i]
    /\ Call(proof_hashes, leaf_indices, ReplaceAt(leaf_hashes, i, hash),
            total_leaves_count, "leaf_hash")

\* The same call with another total number of leaves.
ChangeLeavesCount(n) ==
    /\ tamper = "none"
    /\ n # total_leaves_count
    /\ Call(proof_hashes, leaf_indices, leaf_hashes, n, "leaves_count")

\* The same call with the last proof hash missing.
DropProofHash ==
    /\ tamper = "none"
    /\ proof_hashes # <<>>
    /\ Call(DropLast(proof_hashes), leaf_indices, leaf_hashes, total_leaves_count,
            "proof_short")

\* A call with one leaf hash fewer than leaf positions, after any of the above.
DropLeafHash ==
    /\ tamper \in {"none", "proof_short", "leaves_count"}
    /\ leaf_hashes # <<>>
    /\ Call(proof_hashes, leaf_indices, DropLast(leaf_hashes), total_leaves_count,
            "mismatch")

\* The permutations of 1..n.
Orderings(n) ==
    {f \in [1..n -> 1..n] : \A i, j \in 1..n : f[i] = f[j] => i = j}

\* The call made with the proof as it is, or with another number of leaves,
\* made again with the leaf positions and the leaf hashes in another order,
\* each position still paired with its hash.
PermuteLeaves(perm) ==
    /\ tamper \in {"none", "leaves_count"}
    /\ perm # [i \in 1..Len(leaf_indices) |-> i]
    /\ Call(proof_hashes,
            [i \in 1..Len(leaf_indices) |-> leaf_indices[perm[i]]],
            [i \in 1..Len(leaf_indices) |-> leaf_hashes[perm[i]]],
            total_leaves_count, "permuted")

\* The call made with the proof as it is, made again with hashes added at the
\* end of the proof.
AppendProofHashes(extra) ==
    /\ tamper = "none"
    /\ Call(proof_hashes \o extra, leaf_indices, leaf_hashes, total_leaves_count,
            "proof_long")

NextProof ==
    \/ \E S \in (SUBSET (0..(Len(built_from) - 1))) \ {{}} : VerifyProof(S)
    \/ \E i \in 1..MaxProofLeaves, hash \in KnownHashes : ReplaceProofHash(i, hash)
    \/ \E i \in 1..MaxProofLeaves, hash \in KnownHashes : ReplaceLeafHash(i, hash)
    \/ \E n \in 0..(MaxProofLeaves + 2) : ChangeLeavesCount(n)
    \/ DropProofHash
    \/ DropLeafHash
    \/ \E perm \in Orderings(Len(leaf_indices)) : PermuteLeaves(perm)
    \/ \E extra \in SeqsOf(LeafHashes, 1, 2) : AppendProofHashes(extra)

SpecProof == InitProof /\ [][NextProof]_vars

(***************************************************************************)
(* The byte encoding of a proof. Here a hash is an array of hash_size      *)
(* bytes, as Hasher::Hash is.                                              *)
(***************************************************************************)
Bytes == 0..MaxByte

\* Hasher::hash_size
hash_size == HashWidth

ByteHashes == [1..hash_size -> Bytes]

\* Faulty variant: the hashes are written last to first.
to_bytes_reversed(hashes) ==
    Flatten([i \in 1..Len(hashes) |-> hashes[Len(hashes) + 1 - i]])

\* MerkleProof::to_bytes: every hash turned into its bytes, flattened.
to_bytes(hashes) == Flatten([i \in 1..Len(hashes) |-> hashes[i]])

\* The loop of try_from: the slices slice_start..slice_end for i in 0..hashes_count.
RECURSIVE Slices(_, _, _)
Slices(byte_seq, i, hashes_count) ==
    IF i >= hashes_count THEN <<>>
    ELSE LET slice_start == i * hash_size
             slice_end == (i + 1) * hash_size
         IN  <<SubSeq(byte_seq, slice_start + 1, slice_end)>>
             \o Slices(byte_seq, i + 1, hashes_count)

\* Faulty variant: no check of the length, the bytes after the last whole chunk are dropped.
try_from_unchecked(byte_seq) ==
    [status |-> "Ok", hashes |-> Slices(byte_seq, 0, Len(byte_seq) \div hash_size)]

\* TryFrom<&[u8]> for MerkleProof (MerkleProof::from_bytes)
try_from(byte_seq) ==
    IF Len(byte_seq) % hash_size # 0
    THEN [status |-> "WrongProofSize", hashes |-> <<>>]
    ELSE [status |-> "Ok",
          hashes |-> Slices(byte_seq, 0, Len(byte_seq) \div hash_size)]

MaxBytesLen == MaxProofLen * HashWidth + 1

InitBytes ==
    /\ sorted_pair_enabled = FALSE
    /\ current_working_tree = <<>>
    /\ history = <<>>
    /\ uncommitted_leaves = <<>>
    /\ op = "start"
    /\ answer = NoAnswer
    /\ committed_once = FALSE
    /\ built_from = <<>>
    /\ IdleProof
    /\ IdleBytes
    /\ IdleBuild
    /\ IdlePartial
    /\ log = <<>>

BytesFrame ==
    UNCHANGED <<sorted_pair_enabled, current_working_tree, history, uncommitted_leaves,
                answer, committed_once, built_from, log, leaf_indices, leaf_hashes,
                total_leaves_count, tamper, root_result, verify_result, build_vars,
                   partial_vars>>

\* MerkleProof::new
NewProof(hashes) ==
    /\ op = "start"
    /\ proof_hashes' = hashes
    /\ op' = "new"
    /\ UNCHANGED <<bytes, decoded>>
    /\ BytesFrame

\* MerkleProof::to_bytes
ToBytes ==
    /\ op = "new"
    /\ bytes' = to_bytes(proof_hashes)
    /\ op' = "to_bytes"
    /\ UNCHANGED <<proof_hashes, decoded>>
    /\ BytesFrame

\* Bytes that come from elsewhere.
ReceiveBytes(byte_seq) ==
    /\ op = "start"
    /\ bytes' = byte_seq
    /\ op' = "received"
    /\ UNCHANGED <<proof_hashes, decoded>>
    /\ BytesFrame

\* MerkleProof::from_bytes
FromBytes ==
    /\ op \in {"to_bytes", "received"}
    /\ decoded' = try_from(bytes)
    /\ op' = "from_bytes"
    /\ UNCHANGED <<proof_hashes, bytes>>
    /\ BytesFrame

NextBytes ==
    \/ op = "start" /\ \E hashes \in SeqsOf(ByteHashes, 0, MaxProofLen) : NewProof(hashes)
    \/ ToBytes
    \/ op = "start" /\ \E byte_seq \in SeqsOf(Bytes, 0, MaxBytesLen) : ReceiveBytes(byte_seq)
    \/ FromBytes

SpecBytes == InitBytes /\ [][NextBytes]_vars

(***************************************************************************)
(* PartialTree::build called on its own, on any layer of nodes (a set of   *)
(* positions, a hash for each), with or without helper nodes for the layer *)
(* above, and any depth.                                                   *)
(***************************************************************************)
LayerOver(S, hash_of) ==
    [i \in 1..Cardinality(S) |-> <<Ascending(S)[i], hash_of[Ascending(S)[i]]>>]

LayersOver(positions) ==
    UNION {{LayerOver(S, hash_of) : hash_of \in [S -> LeafHashes]} :
           S \in SUBSET positions}

GivenLayers ==
    {<<first>> : first \in LayersOver(0..MaxPosition)}
    \cup {<<first, second>> : first \in LayersOver(0..MaxPosition),
                              second \in {LayerOver(S, [p \in S |-> <<1>>]) :
                                          S \in (SUBSET (0..1)) \ {{}}}}

InitBuild ==
    /\ sorted_pair_enabled \in BOOLEAN
    /\ current_working_tree = <<>>
    /\ history = <<>>
    /\ uncommitted_leaves = <<>>
    /\ op = "start"
    /\ answer = NoAnswer
    /\ committed_once = FALSE
    /\ built_from = <<>>
    /\ IdleProof
    /\ IdleBytes
    /\ IdleBuild
    /\ IdlePartial
    /\ log = <<>>

\* PartialTree::build
Build(layers, depth_given) ==
    /\ given_layers' = layers
    /\ given_depth' = depth_given
    /\ build_result' = build(layers, depth_given, sorted_pair_enabled)
    /\ op' = "build"
    /\ UNCHANGED <<sorted_pair_enabled, current_working_tree, history, uncommitted_leaves,
                   answer, committed_once, built_from, log, proof_vars, bytes_vars,
                   partial_vars>>

NextBuild ==
    op = "start" /\ \E layers \in GivenLayers, depth_given \in 0..MaxBuildDepth :
                        Build(layers, depth_given)

SpecBuild == InitBuild /\ [][NextBuild]_vars

(***************************************************************************)
(* A PartialTree used on its own: new, build, merge_unverified of a tree as *)
(* built, new or cleared with any other built tree, clear, depth.          *)
(***************************************************************************)
\* usize arithmetic wraps at this modulus when overflow checks are off (the
\* width is scaled down from 64 bits to what the integers checked here hold).
UsizeModulus == 2 ^ 30

\* PartialTree::depth, layers.len() - 1 in usize, wrapping.
partial_depth(layers) == (Len(layers) - 1) % UsizeModulus

\* The layers of nodes that all have the hash leaf_hash.
LayersOf(leaf_hash) ==
    {LayerOver(S, [p \in S |-> leaf_hash]) : S \in SUBSET (0..MaxMergePosition)}

\* The hash of the leaves of self, and of the leaves of the tree merged in.
SelfLeaf == <<1>>
OtherLeaf == <<2>>

\* The partial trees build returns over one layer of nodes.
BuiltTrees(leaf_hash) ==
    LET results == {build(<<layer>>, d, sorted_pair_enabled) :
                       layer \in LayersOf(leaf_hash), d \in 0..MaxBuildDepth}
    IN  {built.layers : built \in {r \in results : r.err = "Ok"}}

InitPartial ==
    /\ sorted_pair_enabled \in BOOLEAN
    /\ current_working_tree = <<>>
    /\ history = <<>>
    /\ uncommitted_leaves = <<>>
    /\ op = "start"
    /\ answer = NoAnswer
    /\ committed_once = FALSE
    /\ built_from = <<>>
    /\ IdleProof
    /\ IdleBytes
    /\ IdleBuild
    /\ IdlePartial
    /\ log = <<>>

PartialFrame ==
    UNCHANGED <<sorted_pair_enabled, tree_vars, proof_vars, bytes_vars, build_vars>>

\* PartialTree::build in the place of a tree without layers: self becomes the
\* tree built.
BuildSelf(layers, depth_given) ==
    LET built == build(layers, depth_given, sorted_pair_enabled)
    IN  /\ outcome.call \in {"new", "clear"}
        /\ built.err = "Ok"
        /\ self_layers' = built.layers
        /\ outcome' = Outcome("build", self_layers, FALSE, 0)
        /\ UNCHANGED other_layers
        /\ PartialFrame

\* PartialTree::merge_unverified. The subtraction of the layer counts comes
\* first: when self has more layers it goes below zero, which panics with
\* overflow checks on and wraps without them.
MergeUnverified(other) ==
    /\ outcome.call \in {"new", "build", "clear"}
    /\ other_layers' = other
    /\ \/ /\ depth_difference_underflows(self_layers, other)
          /\ self_layers' = self_layers
          /\ outcome' = Outcome("merge", self_layers, TRUE, 0)
       \/ /\ self_layers' = merge_unverified(self_layers, other)
          /\ outcome' = Outcome("merge", self_layers, FALSE, 0)
    /\ PartialFrame

\* PartialTree::clear
Clear ==
    /\ self_layers' = <<>>
    /\ outcome' = Outcome("clear", self_layers, FALSE, 0)
    /\ UNCHANGED other_layers
    /\ PartialFrame

\* PartialTree::depth. Without layers the subtraction goes below zero, which
\* panics with overflow checks on and wraps without them.
Depth ==
    /\ \/ /\ self_layers = <<>>
          /\ outcome' = Outcome("depth", self_layers, TRUE, 0)
       \/ outcome' = Outcome("depth", self_layers, FALSE, partial_depth(self_layers))
    /\ UNCHANGED <<self_layers, other_layers>>
    /\ PartialFrame

NextPartial ==
    \/ \E layer \in LayersOf(SelfLeaf), d \in 0..MaxBuildDepth :
           BuildSelf(<<layer>>, d)
    \/ \E other \in BuiltTrees(OtherLeaf) : MergeUnverified(other)
    \/ Clear
    \/ Depth

SpecPartial == InitPartial /\ [][NextPartial]_vars

(***************************************************************************)
(* Properties                                                              *)
(***************************************************************************)
Called == tamper # "idle"

\* The number of hashes root takes from the proof for the arguments given.
HashesNeeded ==
    Len(Flatten(proof_indices_by_layers(leaf_indices, total_leaves_count)))

\* C1: for every leaf list of 1..N hashes, either pairing policy and every
\* non-empty set S of positions, the proof the tree returns for S, given to
\* MerkleProof::root with S, the leaf hashes at S and the number of leaves,
\* yields exactly the tree's root, and verify against that root is true.
C1_ProofReconstructsRoot ==
    tamper = "none" =>
        /\ root(current_working_tree) # NoHash
        /\ root_result = RootOk(root(current_working_tree))
        /\ verify_result = "true"

\* C1 for lists of two or more leaves.
C1_FromTwoLeaves ==
    (tamper = "none" /\ Len(built_from) >= 2) =>
        /\ root(current_working_tree) # NoHash
        /\ root_result = RootOk(root(current_working_tree))
        /\ verify_result = "true"

\* C2: for every proof, also one with fewer hashes than the positions need,
\* verify ends with a boolean, true exactly when root returns Ok with the given
\* root; it never panics.
C2_VerifyNeverPanics ==
    (Called /\ verify_result # "NoRoot") =>
        /\ root_result.status # "Panic"
        /\ verify_result \in {"true", "false"}
        /\ verify_result = "true" <=> root_result = RootOk(root(current_working_tree))

\* C3: with the valid proof for S, one proof hash or one claimed leaf hash
\* replaced by a different hash makes verify against the tree's root false.
C3_ReplacedHashRejected ==
    (tamper \in {"proof_hash", "leaf_hash"} /\ verify_result # "NoRoot") =>
        verify_result = "false"

C3_Witness ==
    /\ tamper = "proof_hash"
    /\ root_result.status = "Ok"
    /\ verify_result = "false"
    /\ Len(proof_hashes) >= 2

\* C4: with the valid proof for S and the right root, positions and leaf
\* hashes, a total leaf count other than the tree's makes verify false.
C4_WrongLeavesCountRejected ==
    (tamper = "leaves_count" /\ verify_result # "NoRoot") =>
        verify_result = "false"

\* C7: root returns the mismatched leaf counts error whenever the numbers of
\* positions and of leaf hashes differ, whatever the proof hashes and the total
\* are, before anything is reconstructed.
C7_MismatchedLeafCounts ==
    (Called /\ Len(leaf_indices) # Len(leaf_hashes)) =>
        root_result = RootErr("LeavesIndicesCountMismatch")

\* A mismatch on a proof with too few hashes for the reconstruction.
C7_Witness ==
    /\ tamper = "mismatch"
    /\ Len(leaf_indices) = Len(leaf_hashes) + 1
    /\ Len(proof_hashes) < HashesNeeded
    /\ root_result = RootErr("LeavesIndicesCountMismatch")

\* C5: for every proof p, from_bytes(p.to_bytes()) succeeds with the same
\* hashes in the same order, and to_bytes has (number of hashes) * hash_size
\* bytes.
C5_RoundTrip ==
    /\ op = "to_bytes" => Len(bytes) = Len(proof_hashes) * hash_size
    /\ (op = "from_bytes" /\ bytes = to_bytes(proof_hashes)) =>
           decoded = [status |-> "Ok", hashes |-> proof_hashes]

C5_Witness ==
    /\ op = "from_bytes"
    /\ Len(proof_hashes) = 2
    /\ proof_hashes[1] # proof_hashes[2]
    /\ bytes = to_bytes(proof_hashes)
    /\ decoded.hashes = proof_hashes

\* C6: from_bytes returns the malformed proof error, and no proof, exactly when
\* the number of bytes is no multiple of hash_size; otherwise it returns
\* len / hash_size hashes, the i-th being the i-th chunk of hash_size bytes.
C6_FromBytes ==
    op = "from_bytes" =>
        IF Len(bytes) % hash_size # 0
        THEN decoded = [status |-> "WrongProofSize", hashes |-> <<>>]
        ELSE /\ decoded.status = "Ok"
             /\ Len(decoded.hashes) * hash_size = Len(bytes)
             /\ \A i \in 1..Len(decoded.hashes) :
                    /\ Len(decoded.hashes[i]) = hash_size
                    /\ \A j \in 1..hash_size :
                           decoded.hashes[i][j] = bytes[(i - 1) * hash_size + j]

\* Both outcomes seen: an error for received bytes, and two chunks.
C6_Witness ==
    /\ op = "from_bytes"
    /\ Len(bytes) = 2 * hash_size
    /\ decoded.status = "Ok"
    /\ Len(decoded.hashes) = 2
    /\ decoded.hashes[1] # decoded.hashes[2]

C6_WitnessError ==
    /\ op = "from_bytes"
    /\ Len(bytes) = hash_size + 1
    /\ decoded.status = "WrongProofSize"

\* What the queries show of the committed state.
CommittedView(tree) == <<root(tree), leaves(tree), leaves_len(tree), depth(tree)>>

\* C8: in every state reached by insert, append, commit and rollback, root()
\* is the root of a tree built from scratch over leaves(), the committed
\* leaves in insertion order, with the same pairing policy.
C8_RootIsRootOfLeaves ==
    /\ root(current_working_tree) =
           root(tree_from_leaves(leaves(current_working_tree), sorted_pair_enabled))
    /\ root(current_working_tree) =
           root(from_leaves(leaves(current_working_tree), sorted_pair_enabled).layers)

\* Two commits on top of each other, the second onto a tree with a root.
C8_Witness ==
    /\ op = "commit"
    /\ Len(history) = 2
    /\ root(history[2]) # NoHash
    /\ leaves_len(current_working_tree) > leaves_len(history[2])
    /\ leaves_len(current_working_tree) >= 3
    /\ root(current_working_tree) # NoHash

\* C9: insert, append and the queries leave root(), leaves(), leaves_len() and
\* depth() as they were, so that only commit and rollback change the committed
\* state; and before any commit root() is None however many leaves are staged.
C9_StagingLeavesCommittedStateAlone ==
    /\ [](~committed_once => root(current_working_tree) = NoHash)
    /\ [][op' \in {"insert", "append", "query"} =>
            CommittedView(current_working_tree') = CommittedView(current_working_tree)]_vars

C9_Witness ==
    /\ op = "insert"
    /\ Len(uncommitted_leaves) >= 2
    /\ root(current_working_tree) # NoHash

\* C10 as stated: in every reachable state uncommitted_root is the value root()
\* has right after commit, and the call of uncommitted_root changes neither the
\* staged nor the committed state.
C10_UncommittedRootIsRootAfterCommit ==
    /\ [][op' = "commit" =>
            root(current_working_tree') =
                uncommitted_root(current_working_tree, uncommitted_leaves,
                                 sorted_pair_enabled)]_vars
    /\ [][(op' = "query" /\ answer'.query = "uncommitted_root") =>
            UNCHANGED <<current_working_tree, uncommitted_leaves, history>>]_vars

\* C10 amended: the same in every reachable state with at least one staged
\* leaf; without staged leaves uncommitted_root is None and commit leaves
\* root() as it is.
C10_Amended ==
    /\ [][(op' = "commit" /\ uncommitted_leaves # <<>>) =>
            root(current_working_tree') =
                uncommitted_root(current_working_tree, uncommitted_leaves,
                                 sorted_pair_enabled)]_vars
    /\ [][(op' = "commit" /\ uncommitted_leaves = <<>>) =>
            /\ uncommitted_root(current_working_tree, uncommitted_leaves,
                                sorted_pair_enabled) = NoHash
            /\ root(current_working_tree') = root(current_working_tree)]_vars
    /\ [][(op' = "query" /\ answer'.query = "uncommitted_root") =>
            /\ answer'.value = uncommitted_root(current_working_tree, uncommitted_leaves,
                                                sorted_pair_enabled)
            /\ UNCHANGED <<current_working_tree, uncommitted_leaves, history>>]_vars

\* A commit of staged leaves onto a tree that has a root.
C10_Witness ==
    /\ op = "commit"
    /\ uncommitted_leaves = <<>>
    /\ Len(history) >= 1
    /\ root(history[Len(history)]) # NoHash
    /\ leaves_len(current_working_tree) > leaves_len(history[Len(history)])
    /\ root(current_working_tree) # root(history[Len(history)])

\* C11: whenever no leaf is staged uncommitted_root returns None, also when
\* committed leaves exist, in particular right after a commit.
C11_NothingStagedNoUncommittedRoot ==
    uncommitted_leaves = <<>> =>
        /\ uncommitted_root(current_working_tree, uncommitted_leaves,
                            sorted_pair_enabled) = NoHash
        /\ (op = "query" /\ answer.query = "uncommitted_root") => answer.value = NoHash

\* uncommitted_root asked on a tree with a committed root and nothing staged.
C11_Witness ==
    /\ op = "query"
    /\ answer.query = "uncommitted_root"
    /\ uncommitted_leaves = <<>>
    /\ root(current_working_tree) # NoHash
    /\ leaves_len(current_working_tree) >= 2

\* root() and leaves() of a committed tree.
RootAndLeaves(tree) == <<root(tree), leaves(tree)>>

\* The last 2n recorded operations are n commits followed by n rollbacks.
CommitsThenRollbacks(n) ==
    /\ Len(log) >= 2 * n
    /\ \A i \in (Len(log) - 2 * n + 1)..(Len(log) - n) : log[i].op = "commit"
    /\ \A i \in (Len(log) - n + 1)..Len(log) : log[i].op = "rollback"

\* Each of the n commits before the last n rollbacks had staged leaves.
AllStaged(n) ==
    \A i \in (Len(log) - 2 * n + 1)..(Len(log) - n) : log[i].staged

\* C12 as stated: after n commits, with or without staged leaves before
\* each, followed by n rollbacks, root() and leaves() are what they were
\* before the first of the commits (n = 1: commit, then rollback).
C12_CommitsThenRollbacksRestore ==
    \A n \in 1..MaxLog :
        CommitsThenRollbacks(n) =>
            RootAndLeaves(current_working_tree) =
                RootAndLeaves(log[Len(log) - 2 * n + 1].before)

\* C12 amended: the same for n commits that each had at least one staged leaf.
C12_Amended ==
    \A n \in 1..MaxLog :
        (CommitsThenRollbacks(n) /\ AllStaged(n)) =>
            RootAndLeaves(current_working_tree) =
                RootAndLeaves(log[Len(log) - 2 * n + 1].before)

\* Two commits of staged leaves, the second onto a tree with a root, then two
\* rollbacks.
C12_Witness ==
    /\ CommitsThenRollbacks(2)
    /\ AllStaged(2)
    /\ root(log[Len(log) - 2].before) # NoHash
    /\ RootAndLeaves(log[Len(log) - 2].before) # RootAndLeaves(log[Len(log) - 3].before)

\* The committed tree the i-th recorded operation left behind.
TreeAfter(i) == IF i < Len(log) THEN log[i + 1].before ELSE current_working_tree

\* Whether the history held an entry after the i-th recorded operation.
HistoryAfter(i) == IF i < Len(log) THEN log[i + 1].had_history ELSE history # <<>>

\* The recorded operations end with a commit of staged leaves (the j-th),
\* then commits without staged leaves only (at least one), then a rollback.
IdleCommitsThenRollback(j) ==
    /\ j + 2 <= Len(log)
    /\ log[j].op = "commit" /\ log[j].staged
    /\ \A i \in (j + 1)..(Len(log) - 1) : log[i].op = "commit" /\ ~log[i].staged
    /\ log[Len(log)].op = "rollback"

\* C13: a commit with no staged leaves changes neither root() nor leaves() and
\* adds no rollback step: the next rollback restores the committed state that
\* preceded the most recent commit that had staged leaves.
C13_IdleCommitAddsNoRollbackStep ==
    /\ [](\A i \in 1..Len(log) :
            (log[i].op = "commit" /\ ~log[i].staged) =>
                /\ RootAndLeaves(TreeAfter(i)) = RootAndLeaves(log[i].before)
                /\ HistoryAfter(i) = log[i].had_history)
    /\ [](\A j \in 1..Len(log) :
            IdleCommitsThenRollback(j) =>
                RootAndLeaves(current_working_tree) = RootAndLeaves(log[j].before))
    /\ [][(op' = "commit" /\ uncommitted_leaves = <<>>) =>
            UNCHANGED <<current_working_tree, history>>]_vars

\* A commit of staged leaves onto a tree with a root, a commit with nothing
\* staged, then a rollback.
C13_Witness ==
    \E j \in 1..Len(log) :
        /\ IdleCommitsThenRollback(j)
        /\ root(log[j].before) # NoHash
        /\ root(log[j + 1].before) # root(log[j].before)

\* The number of commits among the recorded operations (all the commits since
\* MerkleTree::new, as an operation that is not recorded is not applied).
CommitsSoFar == Cardinality({i \in 1..Len(log) : log[i].op = "commit"})

\* The last n recorded operations are rollbacks.
EndsWithRollbacks(n) ==
    /\ n <= Len(log)
    /\ \A i \in (Len(log) - n + 1)..Len(log) : log[i].op = "rollback"

\* The Empty committed state: no root and no leaves.
Empty(tree) == root(tree) = NoHash /\ leaves(tree) = <<>> /\ leaves_len(tree) = 0

\* C14: rollback with an empty history leaves the tree as it is; after k
\* commits, k rollbacks bring the committed state back to Empty, and every
\* further rollback leaves it Empty.
C14_RollbacksEndAtEmpty ==
    /\ [](\A n \in 0..Len(log) :
            (EndsWithRollbacks(n) /\ n >= CommitsSoFar) => Empty(current_working_tree))
    /\ [][(op' = "rollback" /\ history = <<>>) =>
            UNCHANGED <<current_working_tree, history, uncommitted_leaves>>]_vars

\* A commit that gave the tree a root, the rollback undoing it, and one more.
C14_Witness ==
    /\ Len(log) = 3
    /\ log[1].op = "commit" /\ log[1].staged
    /\ root(log[2].before) # NoHash
    /\ log[2].op = "rollback" /\ log[3].op = "rollback"
    /\ ~log[3].had_history

\* The proofs of a tree, for every non-empty set of positions of its leaves.
Proofs(tree) ==
    [S \in (SUBSET (0..(leaves_len(tree) - 1))) \ {{}} |-> proof(tree, Ascending(S))]

HasNode(tree, layer, position) ==
    layer <= Len(tree) /\ \E k \in 1..Len(tree[layer]) : tree[layer][k][1] = position

\* The hash of that node.
NodeHash(tree, layer, position) ==
    tree[layer][CHOOSE k \in 1..Len(tree[layer]) : tree[layer][k][1] = position][2]

StrictlyAscending(s) == \A i \in 1..(Len(s) - 1) : s[i] < s[i + 1]

\* A tree of six leaves with different hashes, and its proof for {3, 4}.
SixLeaves == tree_from_leaves(<<<<1>>, <<2>>, <<3>>, <<4>>, <<5>>, <<6>>>>, FALSE)
SixLeavesProof == proof(SixLeaves, <<3, 4>>)

\* C16: proof(positions) is exactly the hashes of the nodes of the committed
\* tree at the positions proof_indices_by_layers(positions, leaves_len())
\* lists, leaf layer first and ascending by position within a layer; for six
\* leaves and the positions 3 and 4 these are the leaves at 2 and 5, then the
\* node at position 0 of layer 1: three hashes, none of the root layer.
C16_ProofHashesByLayer ==
    /\ tamper = "none" =>
         LET tree == current_working_tree
             by_layer == proof_indices_by_layers(leaf_indices, leaves_len(tree))
         IN  /\ Len(by_layer) = tree_depth(leaves_len(tree))
             /\ \A l \in 1..Len(by_layer) :
                    /\ StrictlyAscending(by_layer[l])
                    /\ \A k \in 1..Len(by_layer[l]) : HasNode(tree, l, by_layer[l][k])
             /\ proof_hashes =
                    Flatten([l \in 1..Len(by_layer) |->
                        [k \in 1..Len(by_layer[l]) |-> NodeHash(tree, l, by_layer[l][k])]])
    /\ proof_indices_by_layers(<<3, 4>>, 6) = <<<<2, 5>>, <<0>>, <<>>>>
    /\ SixLeavesProof = <<<<3>>, <<6>>, ConcatAndHash(<<1>>, <<2>>)>>
    /\ SixLeavesProof = <<NodeHash(SixLeaves, 1, 2), NodeHash(SixLeaves, 1, 5),
                          NodeHash(SixLeaves, 2, 0)>>

\* A proof with hashes of two layers has been taken.
C16_Witness ==
    /\ tamper = "none"
    /\ Len(built_from) >= 3
    /\ Len(proof_hashes) >= 2
    /\ \E l \in 1..2 :
           proof_indices_by_layers(leaf_indices, Len(built_from))[l] # <<>>
    /\ proof_indices_by_layers(leaf_indices, Len(built_from))[2] # <<>>

\* The layer with the hashes of the nodes at the positions p and q exchanged.
SwapHashes(tree, layer, p, q) ==
    [k \in 1..Len(tree[layer]) |->
        IF tree[layer][k][1] = p THEN <<p, NodeHash(tree, layer, q)>>
        ELSE IF tree[layer][k][1] = q THEN <<q, NodeHash(tree, layer, p)>>
        ELSE tree[layer][k]]

\* The parent positions k of a layer whose two children 2k and 2k + 1 are there.
CompletePairs(tree, layer) ==
    {k \in 0..MaxLeaves : HasNode(tree, layer, 2 * k) /\ HasNode(tree, layer, 2 * k + 1)}

\* C17 for the committed tree, where every layer holds all its positions:
\* with sorted_pair_enabled the parent of two sibling hashes (a, b) is the
\* parent of (b, a), and exchanging the hashes of a complete sibling pair of
\* any layer leaves the parent, every ancestor and the root as they are;
\* without it the hash of the left (even) position is the first argument.
C17_SortedPairsCommute ==
    LET tree == current_working_tree
    IN  \A l \in 1..(Len(tree) - 1) : \A k \in CompletePairs(tree, l) :
            LET a == NodeHash(tree, l, 2 * k)
                b == NodeHash(tree, l, 2 * k + 1)
                rebuilt == build(<<SwapHashes(tree, l, 2 * k, 2 * k + 1)>>,
                                 Len(tree) - l, sorted_pair_enabled)
            IN  IF sorted_pair_enabled
                THEN /\ sorted_concat_and_hash(a, b) = sorted_concat_and_hash(b, a)
                     /\ NodeHash(tree, l + 1, k) = sorted_concat_and_hash(a, b)
                     /\ rebuilt.err = "Ok"
                     /\ Len(rebuilt.layers) = Len(tree) - l + 1
                     /\ \A m \in 2..Len(rebuilt.layers) :
                            rebuilt.layers[m] = tree[l + m - 1]
                     /\ root(rebuilt.layers) = root(tree)
                ELSE /\ unsorted_concat_and_hash(a, b) = ConcatAndHash(a, b)
                     /\ NodeHash(tree, l + 1, k) = ConcatAndHash(a, b)
                     /\ rebuilt.err = "Ok"
                     /\ NodeHash(rebuilt.layers, 2, k) = ConcatAndHash(b, a)

\* A tree built with sorted pairs has a leaf pair whose right hash is the
\* smaller one, and a pair of different hashes in the layer above.
C17_Witness ==
    /\ sorted_pair_enabled
    /\ op = "commit"
    /\ Len(current_working_tree) >= 3
    /\ \E k \in CompletePairs(current_working_tree, 1) :
           StrLess(ToHexString(NodeHash(current_working_tree, 1, 2 * k + 1)),
                   ToHexString(NodeHash(current_working_tree, 1, 2 * k)))
    /\ \E k \in CompletePairs(current_working_tree, 2) :
           NodeHash(current_working_tree, 2, 2 * k) #
               NodeHash(current_working_tree, 2, 2 * k + 1)

\* The layer holds a right node (an odd position) without the left node of
\* the same parent.
LacksLeftNode(layers, l) ==
    \E k \in 1..Len(layers[l]) :
        /\ layers[l][k][1] % 2 = 1
        /\ ~HasNode(layers, l, layers[l][k][1] - 1)

\* C18: PartialTree::build returns the NotEnoughHelperNodes error, and no
\* tree, whenever a layer it processes lacks the left node (position 2k) of a
\* parent k it has to produce; and it ends with a tree or with that error.
C18_MissingLeftNodeIsAnError ==
    op = "build" =>
        /\ build_result.err \in {"Ok", "NotEnoughHelperNodes"}
        /\ build_result.err = "Ok" =>
               \A l \in 1..given_depth : ~LacksLeftNode(build_result.layers, l)

\* The least d with 2^d >= n, and 0 for n <= 1.
RECURSIVE LeastPower(_, _)
LeastPower(n, d) == IF 2 ^ d >= n THEN d ELSE LeastPower(n, d + 1)

\* C19: for every number n of leaves from 0, the tree MerkleTree::from_leaves
\* builds over n leaves (an empty tree, the leaves staged, a commit) reports
\* depth() = tree_depth(n), which is 0 for n <= 1 and else the least d with
\* 2^d >= n: 3 for six leaves.
C19_DepthIsTreeDepth ==
    /\ [](depth(SixLeaves) = 3 /\ tree_depth(6) = 3)
    /\ [](\A n \in 0..(MaxLeaves + 1) : tree_depth(n) = LeastPower(n, 0))
    /\ [][(op' = "commit" /\ current_working_tree = <<>>) =>
            depth(current_working_tree') = tree_depth(Len(uncommitted_leaves))]_vars

\* C19 for the partial tree alone: PartialTree::from_leaves over n leaves, the
\* staged ones, has tree_depth(n) + 1 layers, for n = 0 too.
C19_PartialTreeDepth ==
    LET built == from_leaves(uncommitted_leaves, sorted_pair_enabled)
    IN  /\ built.err = "Ok"
        /\ Len(built.layers) - 1 = tree_depth(Len(uncommitted_leaves))

\* C20: MerkleProof::root returns the same result for every order of the
\* claimed leaves: with leaf_indices and leaf_hashes permuted together neither
\* the result of root nor the outcome of verify changes.
C20_LeafOrderIrrelevant ==
    [][tamper' = "permuted" =>
         /\ root_result' = root_result
         /\ verify_result' = verify_result]_vars

\* A valid proof for two or more leaves was checked again with the leaves in
\* descending order of position, and the root came out.
C20_Witness ==
    /\ tamper = "permuted"
    /\ Len(leaf_indices) >= 2
    /\ leaf_indices[1] > leaf_indices[2]
    /\ proof_hashes # <<>>
    /\ root_result = RootOk(root(current_working_tree))
    /\ verify_result = "true"

\* Every node of the layer has its sibling in the layer, but for a last node
\* at an even position: the layers in which the two hashes build_tree takes
\* by place in the list are the two at positions 2k and 2k + 1.
SiblingsPresent(layers, l) ==
    \A k \in 1..Len(layers[l]) :
        LET position == layers[l][k][1]
        IN  IF position % 2 = 1
            THEN HasNode(layers, l, position - 1)
            ELSE HasNode(layers, l, position + 1) \/ k = Len(layers[l])

\* What C17 says of the tree build returned for one given layer.
PairOrderIrrelevant(tree) ==
    \A l \in 1..given_depth : \A k \in CompletePairs(tree, l) :
        LET a == NodeHash(tree, l, 2 * k)
            b == NodeHash(tree, l, 2 * k + 1)
            rebuilt == build(<<SwapHashes(tree, l, 2 * k, 2 * k + 1)>>,
                             given_depth - l + 1, sorted_pair_enabled)
        IN  IF sorted_pair_enabled
            THEN /\ sorted_concat_and_hash(a, b) = sorted_concat_and_hash(b, a)
                 /\ NodeHash(tree, l + 1, k) = sorted_concat_and_hash(a, b)
                 /\ rebuilt.err = "Ok"
                 /\ \A m \in 2..Len(rebuilt.layers) : rebuilt.layers[m] = tree[l + m - 1]
                 /\ root(rebuilt.layers) = root(tree)
            ELSE /\ unsorted_concat_and_hash(a, b) = ConcatAndHash(a, b)
                 /\ NodeHash(tree, l + 1, k) = ConcatAndHash(a, b)

\* C17: with sorted_pair_enabled the parent of two sibling hashes (a, b) is
\* the parent of (b, a): in a tree that build returns, exchanging the hashes
\* of a complete sibling pair of any layer leaves the parent, every ancestor
\* and the root as they are; without it the hash of the left (even) position
\* is the first argument.
C17_PairOrderIrrelevant ==
    (op = "build" /\ Len(given_layers) = 1 /\ build_result.err = "Ok") =>
        PairOrderIrrelevant(build_result.layers)

\* The same for the given layers in which the siblings are present.
C17_SiblingsPresent ==
    (op = "build" /\ Len(given_layers) = 1 /\ build_result.err = "Ok"
        /\ \A l \in 1..given_depth : SiblingsPresent(build_result.layers, l)) =>
        PairOrderIrrelevant(build_result.layers)

\* The hash build gives the parent of the nodes left_node and right_node.
PairHash(left_node, right_node) ==
    IF sorted_pair_enabled
    THEN sorted_concat_and_hash(left_node, right_node)
    ELSE unsorted_concat_and_hash(left_node, right_node)

\* C21: in the tree PartialTree::build returns for any layer, dense or sparse,
\* the node at position k of a layer above the first is the combination of
\* the nodes at the positions 2k and 2k + 1 of the layer below, or of the node
\* at 2k with None when there is no node at 2k + 1; two nodes that are not at
\* 2k and 2k + 1 for one k are never hashed together.
C21_ParentsPairByPosition ==
    (op = "build" /\ Len(given_layers) = 1 /\ build_result.err = "Ok") =>
        LET tree == build_result.layers
        IN  \A l \in 1..given_depth : \A i \in 1..Len(tree[l + 1]) :
                LET k == tree[l + 1][i][1]
                IN  /\ HasNode(tree, l, 2 * k)
                    /\ tree[l + 1][i][2] =
                           PairHash(NodeHash(tree, l, 2 * k),
                                    IF HasNode(tree, l, 2 * k + 1)
                                    THEN NodeHash(tree, l, 2 * k + 1)
                                    ELSE NoHash)

\* The same for the given layers in which the siblings are present.
C21_SiblingsPresent ==
    (op = "build" /\ Len(given_layers) = 1 /\ build_result.err = "Ok"
        /\ \A l \in 1..given_depth : SiblingsPresent(build_result.layers, l)) =>
        C21_ParentsPairByPosition

\* C22: a tree PartialTree::build returns, for any layers and any depth, has
\* depth + 1 layers and at most one node in the last of them, and root() is
\* the hash of that node.
C22_OneNodeAtTheRoot ==
    (op = "build" /\ build_result.err = "Ok") =>
        LET tree == build_result.layers
            last == tree[Len(tree)]
        IN  /\ Len(tree) = given_depth + 1
            /\ Len(last) <= 1
            /\ Len(last) = 1 => root(tree) = last[1][2]

\* The number of layers alone.
C22_DepthPlusOneLayers ==
    (op = "build" /\ build_result.err = "Ok") =>
        Len(build_result.layers) = given_depth + 1

\* The layer l of a partial tree, empty where the tree has no such layer.
LayerAt(layers, l) == IF l <= Len(layers) THEN layers[l] ELSE <<>>

\* A merge_unverified that returned, called with a tree of at least as many
\* layers as self.
MergedIntoSmaller ==
    /\ outcome.call = "merge"
    /\ ~outcome.panic
    /\ Len(other_layers) >= Len(outcome.before)

\* C23: after self.merge_unverified(other), other having at least as many
\* layers as self, every layer of self holds all the nodes of other's layer
\* and the former nodes of self at the positions other's layer lacks, in
\* ascending order, no position twice: where both have a node other's is
\* kept, and every hash is one of the two trees.
C23_MergeTakesOtherOverSelf ==
    MergedIntoSmaller =>
        /\ Len(self_layers) = Len(other_layers)
        /\ \A l \in 1..Len(other_layers) :
               LET kept == {node \in Range(LayerAt(outcome.before, l)) :
                               ~HasNode(other_layers, l, node[1])}
               IN  /\ Range(self_layers[l]) = Range(other_layers[l]) \cup kept
                   /\ StrictlyAscending(Indices(self_layers[l]))

\* A merge in which a layer has a position of self alone, and a position of
\* both trees with two hashes.
C23_Witness ==
    /\ MergedIntoSmaller
    /\ \E l \in 1..Len(outcome.before) :
           /\ \E node \in Range(outcome.before[l]) : ~HasNode(other_layers, l, node[1])
           /\ \E node \in Range(outcome.before[l]) :
                  /\ HasNode(other_layers, l, node[1])
                  /\ NodeHash(other_layers, l, node[1]) # node[2]

\* C24: merge_unverified called on a tree with more layers than other returns
\* normally, the difference of the layer counts not going below zero: the
\* layers other has are merged and the layers of self above them are kept.
C24_MergeIntoTallerTree ==
    (outcome.call = "merge" /\ Len(outcome.before) > Len(other_layers)) =>
        /\ ~outcome.panic
        /\ Len(self_layers) = Len(outcome.before)
        /\ \A l \in 1..Len(self_layers) :
               self_layers[l] = IF l <= Len(other_layers)
                                THEN combined_layer(outcome.before, other_layers, l - 1)
                                ELSE outcome.before[l]

\* The same where the subtraction wraps.
C24_WhereItWraps ==
    (outcome.call = "merge" /\ Len(outcome.before) > Len(other_layers)
        /\ ~outcome.panic) => C24_MergeIntoTallerTree

\* C27: PartialTree::depth returns, for every partial tree the operations
\* reach, a tree without layers (new, clear) included, the number of layers
\* between the leaves and the root, the subtraction not going below zero.
C27_DepthOfAnyPartialTree ==
    outcome.call = "depth" =>
        /\ ~outcome.panic
        /\ outcome.value = IF self_layers = <<>> THEN 0 ELSE Len(self_layers) - 1

\* The same for the trees that have a layer.
C27_DepthWithLayers ==
    (outcome.call = "depth" /\ self_layers # <<>>) => C27_DepthOfAnyPartialTree

\* What C25 says of one commit: the leaves afterwards are the leaves before
\* followed by the staged leaves in the order they were staged, at the
\* positions 0, 1, 2, ... and nothing is left staged.
CommitAppendsStaged ==
    /\ leaves(current_working_tree') = leaves(current_working_tree) \o uncommitted_leaves
    /\ current_working_tree' # <<>> =>
           Indices(current_working_tree'[1]) =
               [i \in 1..Len(current_working_tree'[1]) |-> i - 1]
    /\ uncommitted_leaves' = <<>>

\* C25: commit appends the staged leaves to the committed leaves, at the
\* positions that continue from the committed count and in the order insert
\* and append staged them, and leaves the staged list empty.
C25_CommitAppendsStaged ==
    [][op' = "commit" => CommitAppendsStaged]_vars

\* The same for the commits that do not leave exactly one committed leaf.
C25_NotOneLeaf ==
    [][(op' = "commit"
          /\ leaves_len(current_working_tree) + Len(uncommitted_leaves) # 1)
          => CommitAppendsStaged]_vars

\* The committed tree is, layer by layer, the tree built from scratch over
\* its leaves, and its proof for any positions verifies against its root.
IsTreeOfItsLeaves(tree) ==
    /\ tree = tree_from_leaves(leaves(tree), sorted_pair_enabled)
    /\ \A S \in (SUBSET (0..(leaves_len(tree) - 1))) \ {{}} :
           LET indices == Ascending(S)
           IN  MerkleProofVerify(root(tree), proof(tree, indices), indices,
                                 [i \in 1..Len(indices) |-> leaves(tree)[indices[i] + 1]],
                                 leaves_len(tree), sorted_pair_enabled) = "true"

\* C26: after any sequence of insert, append, commit and rollback every layer
\* of the committed partial tree, positions and hashes, is the layer of a tree
\* built from scratch over leaves(), and a proof taken from the committed tree
\* for any positions verifies against root().
C26_CommittedTreeIsTreeOfLeaves == IsTreeOfItsLeaves(current_working_tree)

\* The same for the committed trees other than the one of a single empty layer.
C26_WithLeaves ==
    current_working_tree # <<<<>>>> => IsTreeOfItsLeaves(current_working_tree)

\* After this commit the tree has a root, and a tree of one leaf has a root
\* made of the hash of that leaf.
CommitGivesRoot ==
    LET all_leaves == leaves(current_working_tree) \o uncommitted_leaves
    IN  /\ root(current_working_tree') # NoHash
        /\ Len(all_leaves) = 1 =>
               root(current_working_tree') \in
                   {all_leaves[1], ConcatAndHash(all_leaves[1], NoHash)}

\* C28: root() is None only while no leaf is committed: after a commit that
\* leaves one or more committed leaves root() is Some, and with one committed
\* leaf it is derived from the hash of that leaf.
C28_RootOnceALeafIsCommitted ==
    [][(op' = "commit"
          /\ leaves_len(current_working_tree) + Len(uncommitted_leaves) >= 1)
          => CommitGivesRoot]_vars

\* The same for the commits that leave two or more committed leaves.
C28_FromTwoLeaves ==
    [][(op' = "commit"
          /\ leaves_len(current_working_tree) + Len(uncommitted_leaves) >= 2)
          => CommitGivesRoot]_vars

\* C29: MerkleProof::root takes the first K hashes of the proof, K the number
\* of positions proof_indices_by_layers lists for the call: with hashes added
\* after them root returns what it returned and verify answers what it
\* answered, and the hashes the proof stores are those it was called with.
C29_ExtraHashesIgnored ==
    [][(tamper' = "proof_long" /\ Len(proof_hashes) >= HashesNeeded) =>
         /\ root_result' = root_result
         /\ verify_result' = verify_result
         /\ SubSeq(proof_hashes', 1, Len(proof_hashes)) = proof_hashes
         /\ Len(proof_hashes') > Len(proof_hashes)]_vars

\* A proof of one or more hashes verified again with hashes added.
C29_Witness ==
    /\ tamper = "proof_long"
    /\ verify_result = "true"
    /\ HashesNeeded >= 1
    /\ Len(proof_hashes) > HashesNeeded

=============================================================================
